---- MODULE Spec2Model ----
(***************************************************************************)
(* Decision engine of the lighthouses bot (src/main.py, class BotGame),    *)
(* its gRPC servicer, and the random engine of src/randbot.py.             *)
(*                                                                         *)
(* A position is the pair <<x, y>>, as the tuples (x, y) of the source.    *)
(* Python's None is the empty sequence <<>>: every path holds at least     *)
(* its start and every position has two coordinates, so <<>> is free.      *)
(***************************************************************************)
EXTENDS Integers, Sequences, FiniteSets, TLC

VARIABLES
    \* ---- BotGame fields (src/main.py:27-50) ----
    player_num,                 \* id given by the join handshake
    countT,                     \* turn counter, starts at 1
    lastX, lastY,               \* "last visited" cell
    turn_history,               \* number of snapshots appended so far
    turn_states,                \* number of BotGameTurn entries appended so far
    known_lighthouse_positions, \* set of positions
    threat_zones,               \* set of positions
    pathfinding_cache,          \* function: <<start, goal, obstacles>> -> path
    lighthouse_target_queue,    \* sequence of positions
    current_target_index,       \* cursor into the queue
    \* ---- the call in progress / last completed call ----
    turn,                       \* the snapshot handed to new_turn_action
    action,                     \* the action it returned
    pc,                         \* "idle", or "returned" while the reply is in flight
    \* ---- a_star_pathfind called on its own (SpecAStar) ----
    a_start, a_goal, a_obstacles, a_path, a_calls,
    \* ---- ClientServer.InitialState ----
    initial_state,              \* the roster kept in self.bg.initial_state, None before
    \* ---- one function of BotGame called on its own ----
    fn_args, fn_result, fn_calls,
    \* ---- Turn calls in the hands of the server's threads (SpecPool) ----
    inflight

vars == <<player_num, countT, lastX, lastY, turn_history, turn_states,
          known_lighthouse_positions, threat_zones, pathfinding_cache,
          lighthouse_target_queue, current_target_index, turn, action, pc,
          a_start, a_goal, a_obstacles, a_path, a_calls,
          initial_state, fn_args, fn_result, fn_calls, inflight>>

engineVars == <<player_num, countT, lastX, lastY, turn_history, turn_states,
                known_lighthouse_positions, threat_zones,
                lighthouse_target_queue, current_target_index, turn, action, pc,
                initial_state>>

astarVars == <<a_start, a_goal, a_obstacles, a_path, a_calls>>

funVars == <<fn_args, fn_result, fn_calls>>

poolVars == <<inflight>>

----------------------------------------------------------------------------
(* Generic helpers                                                         *)

None == <<>>

Abs(n) == IF n < 0 THEN -n ELSE n

Max(a, b) == IF a >= b THEN a ELSE b

Min(a, b) == IF a <= b THEN a ELSE b

Range(s) == {s[i] : i \in DOMAIN s}

\* Python's floor division for a positive divisor
FloorDiv(a, b) == a \div b

----------------------------------------------------------------------------
(* Board                                                                   *)

map_width == 15

map_height == 15

corner_positions == <<(<<0, 0>>), (<<0, 14>>), (<<14, 0>>), (<<14, 14>>)>>

OnBoard(p) == /\ 0 <= p[1] /\ p[1] < map_width
              /\ 0 <= p[2] /\ p[2] < map_height

Board == (0 .. map_width - 1) \X (0 .. map_height - 1)

Chebyshev(a, b) == Max(Abs(a[1] - b[1]), Abs(a[2] - b[2]))

Manhattan(a, b) == Abs(a[1] - b[1]) + Abs(a[2] - b[2])

\* the eight steps in the order of the nested loops
\* "for dx in [-1, 0, 1]: for dy in [-1, 0, 1]" with (0, 0) skipped
Steps == <<(<<-1, -1>>), (<<-1, 0>>), (<<-1, 1>>), (<<0, -1>>),
           (<<0, 1>>), (<<1, -1>>), (<<1, 0>>), (<<1, 1>>)>>

Step(p, d) == <<p[1] + d[1], p[2] + d[2]>>

heuristic(a, b) == Abs(a[1] - b[1]) + Abs(a[2] - b[2])

RECURSIVE NeighborsFrom(_, _)
NeighborsFrom(pos, i) ==
    IF i > Len(Steps) THEN <<>>
    ELSE LET n == Step(pos, Steps[i])
         IN  IF OnBoard(n) THEN <<n>> \o NeighborsFrom(pos, i + 1)
             ELSE NeighborsFrom(pos, i + 1)

\* variant: the four diagonal steps are left out
get_neighbors_NoDiagonal(pos) ==
    SelectSeq(NeighborsFrom(pos, 1), LAMBDA n : n[1] = pos[1] \/ n[2] = pos[2])

get_neighbors(pos) == NeighborsFrom(pos, 1)

----------------------------------------------------------------------------
(* a_star_pathfind                                                         *)
(* open_set is a heap of tuples (f, (x, y)); heappop returns the least     *)
(* tuple in Python's lexicographic order.  An entry is pushed only when    *)
(* g_score of its node strictly improves, so no tuple is pushed twice; the *)
(* heap is kept as the sequence of its entries in ascending order.         *)
(* The dicts g_score and came_from are sequences indexed by cell, with     *)
(* Absent / None for a key the dict does not hold.  get_neighbors only     *)
(* yields cells of the board, so the one key that may lie off the board is *)
(* the start: g_score holds it with 0 and came_from never holds it.        *)

HeapLess(a, b) ==
    \/ a[1] < b[1]
    \/ /\ a[1] = b[1]
       /\ \/ a[2][1] < b[2][1]
          \/ a[2][1] = b[2][1] /\ a[2][2] < b[2][2]

heappush(open_set, e) ==
    SelectSeq(open_set, LAMBDA o : HeapLess(o, e)) \o <<e>> \o
    SelectSeq(open_set, LAMBDA o : HeapLess(e, o))

CellIndex(p) == p[1] * map_height + p[2] + 1

Absent == -1

\* g_score[current] for a node popped from the heap
GScoreOf(g_score, current) ==
    IF OnBoard(current) THEN g_score[CellIndex(current)] ELSE 0

\* came_from.get(current)
CameFrom(came_from, current) ==
    IF OnBoard(current) THEN came_from[CellIndex(current)] ELSE None

\* the loop "for neighbor in self.get_neighbors(current)", from index i on;
\* st = [open_set, came_from, g_score, done, found]
RECURSIVE RelaxNeighbors(_, _, _, _, _, _)
RelaxNeighbors(nbrs, i, current, goal, obstacles, st) ==
    IF i > Len(nbrs) THEN st
    ELSE LET neighbor == nbrs[i]
             tentative_g_score == GScoreOf(st.g_score, current) + 1
         IN  IF neighbor \in obstacles
             THEN RelaxNeighbors(nbrs, i + 1, current, goal, obstacles, st)
             ELSE IF \/ st.g_score[CellIndex(neighbor)] = Absent
                     \/ tentative_g_score < st.g_score[CellIndex(neighbor)]
             THEN RelaxNeighbors(nbrs, i + 1, current, goal, obstacles,
                    [st EXCEPT
                       !.open_set  = heappush(@, <<tentative_g_score + heuristic(neighbor, goal),
                                                   neighbor>>),
                       !.came_from = [@ EXCEPT ![CellIndex(neighbor)] = current],
                       !.g_score   = [@ EXCEPT ![CellIndex(neighbor)] = tentative_g_score]])
             ELSE RelaxNeighbors(nbrs, i + 1, current, goal, obstacles, st)

\* "while current in came_from: path.append(current) ..."; append start; reverse
RECURSIVE ReconstructPath(_, _, _)
ReconstructPath(came_from, current, start) ==
    IF CameFrom(came_from, current) # None
    THEN Append(ReconstructPath(came_from, CameFrom(came_from, current), start), current)
    ELSE <<start>>

\* variant: the loop is not left when the heap runs empty
AStarIterate_NoExit(st, goal, obstacles) ==
    IF st.open_set = <<>> THEN st
    ELSE LET current == Head(st.open_set)[2]
         IN  IF current = goal
             THEN [st EXCEPT !.open_set = Tail(@), !.done = TRUE, !.found = TRUE]
             ELSE RelaxNeighbors(get_neighbors(current), 1, current, goal, obstacles,
                                 [st EXCEPT !.open_set = Tail(@)])

\* one iteration of "while open_set:"; done is set when the loop is left,
\* found when it is left through "if current == goal"
AStarIterate(st, goal, obstacles) ==
    IF st.open_set = <<>> THEN [st EXCEPT !.done = TRUE]
    ELSE LET current == Head(st.open_set)[2]
         IN  IF current = goal
             THEN [st EXCEPT !.open_set = Tail(@), !.done = TRUE, !.found = TRUE]
             ELSE RelaxNeighbors(get_neighbors(current), 1, current, goal, obstacles,
                                 [st EXCEPT !.open_set = Tail(@)])

\* up to 2^k iterations of the loop, stopping when it is left
RECURSIVE AStarLoop(_, _, _, _)
AStarLoop(st, k, goal, obstacles) ==
    IF st.done THEN st
    ELSE IF k = 0 THEN AStarIterate(st, goal, obstacles)
    ELSE AStarLoop(AStarLoop(st, k - 1, goal, obstacles), k - 1, goal, obstacles)

\* An entry is pushed only when the g_score of a cell drops (or is first set),
\* and g_score lies in 1 .. cells - 1, so the loop runs fewer than cells^2
\* times: 2^LoopLog iterations are enough for it to end on its own.  A search
\* that had not ended by then is reported as Diverged.
RECURSIVE LoopLogFrom(_, _)
LoopLogFrom(k, pow) ==
    IF pow >= (map_width * map_height) * (map_width * map_height) THEN k
    ELSE LoopLogFrom(k + 1, 2 * pow)

LoopLog == LoopLogFrom(0, 1)

Diverged == <<(<<-1, -1>>)>>

\* the search proper, lines 81-114 (cache miss)
AStarSearch(start, goal, obstacles) ==
    IF start = goal THEN <<start>>
    ELSE LET st == AStarLoop([open_set  |-> <<(<<0, start>>)>>,
                              came_from |-> [i \in 1 .. map_width * map_height |-> None],
                              g_score   |-> [i \in 1 .. map_width * map_height |->
                                               IF i = CellIndex(start) THEN 0 ELSE Absent],
                              done      |-> FALSE,
                              found     |-> FALSE],
                             LoopLog, goal, obstacles)
         IN  IF ~st.done THEN Diverged
             ELSE IF st.found THEN ReconstructPath(st.came_from, goal, start)
             ELSE None

cache_key(start, goal, obstacles) == <<start, goal, obstacles>>

\* variant: the search does not look at the obstacles
a_star_pathfind_Blind(cache, start, goal, obstacles) ==
    IF cache_key(start, goal, obstacles) \in DOMAIN cache
    THEN cache[cache_key(start, goal, obstacles)]
    ELSE AStarSearch(start, goal, {})

\* value returned by a_star_pathfind with the cache `cache`
a_star_pathfind(cache, start, goal, obstacles) ==
    IF cache_key(start, goal, obstacles) \in DOMAIN cache
    THEN cache[cache_key(start, goal, obstacles)]
    ELSE AStarSearch(start, goal, obstacles)

\* the cache after that call: only a path found by the loop is stored
\* (not [start] for start = goal, not None)
CacheAfter(cache, start, goal, obstacles, path) ==
    IF \/ cache_key(start, goal, obstacles) \in DOMAIN cache
       \/ start = goal
       \/ path = None
    THEN cache
    ELSE [k \in DOMAIN cache \cup {cache_key(start, goal, obstacles)} |->
             IF k = cache_key(start, goal, obstacles) THEN path ELSE cache[k]]

----------------------------------------------------------------------------
(* Snapshot helpers.  A snapshot (game_pb2.NewTurn) is                     *)
(*   [Position, Energy, Lighthouses]                                       *)
(* and a lighthouse is [Position, Owner, Energy, HaveKey, Connections];    *)
(* Lighthouses is a sequence (the order of the message) and Connections a  *)
(* set of positions.                                                       *)

\* "lighthouses = dict(); for lh in turn.Lighthouses: lighthouses[pos] = lh":
\* the keys in insertion order, and the record of a key (the last one wins)
RECURSIVE DictKeysFrom(_, _)
DictKeysFrom(lhs, i) ==
    IF i > Len(lhs) THEN <<>>
    ELSE IF \E j \in 1 .. i - 1 : lhs[j].Position = lhs[i].Position
         THEN DictKeysFrom(lhs, i + 1)
         ELSE <<lhs[i].Position>> \o DictKeysFrom(lhs, i + 1)

DictKeys(lhs) == DictKeysFrom(lhs, 1)

DictGet(lhs, pos) ==
    lhs[CHOOSE i \in DOMAIN lhs :
            /\ lhs[i].Position = pos
            /\ \A j \in DOMAIN lhs : lhs[j].Position = pos => j <= i]

\* "[lh for lh in turn.Lighthouses if lh.Owner == self.player_num]"
OwnedList(lhs, me) == SelectSeq(lhs, LAMBDA lh : lh.Owner = me)

IsEnemy(lh, me) == lh.Owner # me /\ lh.Owner # 0

----------------------------------------------------------------------------
(* predict_enemy_movement: the cells added to threat_zones                 *)

\* the cells marked for the pair (lh1, lh2), lh1 before lh2 in the list
PairThreats(lh1, lh2) ==
    LET x1 == lh1.Position[1]
        y1 == lh1.Position[2]
        x2 == lh2.Position[1]
        y2 == lh2.Position[2]
        steps == Max(Abs(x2 - x1), Abs(y2 - y1))
    IN  IF steps > 0 /\ steps <= 6
        THEN {<<x1 + FloorDiv((x2 - x1) * step, steps),
                y1 + FloorDiv((y2 - y1) * step, steps)>> : step \in 1 .. steps - 1}
        ELSE {}

predict_enemy_movement(threats, t, me) ==
    threats \cup
    UNION {PairThreats(t.Lighthouses[i], t.Lighthouses[j]) :
             <<i, j>> \in {ij \in (DOMAIN t.Lighthouses) \X (DOMAIN t.Lighthouses) :
                             /\ ij[1] < ij[2]
                             /\ t.Lighthouses[ij[1]].Owner \in (1 .. 4) \ {me}
                             /\ t.Lighthouses[ij[2]].Owner = t.Lighthouses[ij[1]].Owner}}

----------------------------------------------------------------------------
(* update_lighthouse_rotation_queue                                        *)
(* list(self.known_lighthouse_positions) enumerates a set: the order is    *)
(* whatever the hash table gives, so every order is a possible outcome.    *)

RECURSIVE Orderings(_)
Orderings(S) ==
    IF S = {} THEN {<<>>}
    ELSE UNION {{<<x>> \o rest : rest \in Orderings(S \ {x})} : x \in S}

IsEdgePos(pos) == pos[1] = 0 \/ pos[1] = 14 \/ pos[2] = 0 \/ pos[2] = 14

IsCorner(pos) == pos \in Range(corner_positions)

\* the queues the call can leave, given the enumeration order `all`
\* variant: the queue is built anew from the known positions on every call
QueueFor_Rebuild(queue, all) ==
    SelectSeq(all, IsCorner) \o
    SelectSeq(all, LAMBDA pos : ~IsCorner(pos) /\ IsEdgePos(pos)) \o
    SelectSeq(all, LAMBDA pos : ~IsCorner(pos) /\ ~IsEdgePos(pos))

QueueFor(queue, all) ==
    IF queue = <<>>
    THEN LET corner_lighthouses == SelectSeq(all, IsCorner)
             edge_lighthouses == SelectSeq(all, LAMBDA pos : ~IsCorner(pos) /\ IsEdgePos(pos))
             other_lighthouses == SelectSeq(all, LAMBDA pos :
                                     /\ pos \notin Range(corner_lighthouses)
                                     /\ pos \notin Range(edge_lighthouses))
         IN  corner_lighthouses \o edge_lighthouses \o other_lighthouses
    ELSE queue \o SelectSeq(all, LAMBDA pos : pos \notin Range(queue))

update_lighthouse_rotation_queue(queue, known) ==
    {QueueFor(queue, all) : all \in Orderings(known)}

----------------------------------------------------------------------------
(* get_next_lighthouse_target: returns [target, index], index being        *)
(* current_target_index after the call                                     *)

\* "needs_defense": an opposing lighthouse within Manhattan distance 4
NeedsDefense(target_pos, lhs, me) ==
    \E k \in Range(DictKeys(lhs)) :
        /\ IsEnemy(DictGet(lhs, k), me)
        /\ Manhattan(DictGet(lhs, k).Position, target_pos) <= 4

DictOwned(lhs, me) ==
    {DictGet(lhs, k).Position : k \in {q \in Range(DictKeys(lhs)) : DictGet(lhs, q).Owner = me}}

RECURSIVE NextTargetLoop(_, _, _, _, _)
NextTargetLoop(queue, index, attempts, lhs, me) ==
    IF attempts >= Len(queue)
    THEN [target |-> queue[1], index |-> 0]
    ELSE LET i == IF index >= Len(queue) THEN 0 ELSE index
             target_pos == queue[i + 1]
         IN  IF target_pos \in DictOwned(lhs, me) /\ ~NeedsDefense(target_pos, lhs, me)
             THEN NextTargetLoop(queue, i + 1, attempts + 1, lhs, me)
             ELSE [target |-> target_pos, index |-> i]

\* variant: the entry at the cursor is returned, owned or not
get_next_lighthouse_target_NoSkip(queue, index, lhs, me) ==
    IF queue = <<>> THEN [target |-> None, index |-> index]
    ELSE [target |-> queue[(index % Len(queue)) + 1], index |-> index % Len(queue)]

get_next_lighthouse_target(queue, index, lhs, me) ==
    IF queue = <<>> THEN [target |-> None, index |-> index]
    ELSE NextTargetLoop(queue, index, 0, lhs, me)

----------------------------------------------------------------------------
(* optimize_energy_allocation                                              *)

BaseReserve(current_turn) ==
    IF current_turn < 20 THEN 10
    ELSE IF current_turn < 50 THEN 15
    ELSE 25

EnemyNearby(t, me) ==
    \E i \in DOMAIN t.Lighthouses :
        /\ Manhattan(t.Lighthouses[i].Position, t.Position) <= 2
        /\ IsEnemy(t.Lighthouses[i], me)

dynamic_reserve(t, current_turn, threats, me) ==
    LET base_reserve == BaseReserve(current_turn)
        threat_multiplier == Cardinality(threats) \div 20
        owned_lighthouses == Len(OwnedList(t.Lighthouses, me))
    IN  IF EnemyNearby(t, me) THEN base_reserve + 10
        ELSE IF owned_lighthouses >= 3 THEN Max(base_reserve - 5, 5)
        ELSE base_reserve + threat_multiplier * 3

\* "target_energy_needed > current_energy * 0.7" is compared in tenths
optimize_energy_allocation(t, target_energy_needed, current_turn, threats, me) ==
    LET current_energy == t.Energy
        available_energy == Max(0, current_energy - dynamic_reserve(t, current_turn, threats, me))
        boosted == IF 10 * target_energy_needed > 7 * current_energy
                   THEN Min(current_energy - 5, available_energy + 10)
                   ELSE available_energy
    IN  Min(boosted, target_energy_needed)

----------------------------------------------------------------------------
(* find_blocking_positions: sequence of <<position, value>>, sorted by     *)
(* value, highest first (the sort is stable)                               *)

BlockValue(mid) ==
    IF IsCorner(mid) THEN 100
    ELSE IF mid[1] = 0 \/ mid[1] = 14 \/ mid[2] = 0 \/ mid[2] = 14 THEN 50
    ELSE 25

\* pairs (i, j), i < j, of the enemy list in the order of the nested loops
RECURSIVE BlockingFrom(_, _, _)
BlockingFrom(enemy, i, j) ==
    IF i > Len(enemy) THEN <<>>
    ELSE IF j > Len(enemy) THEN BlockingFrom(enemy, i + 1, i + 2)
    ELSE LET mid == <<FloorDiv(enemy[i].Position[1] + enemy[j].Position[1], 2),
                      FloorDiv(enemy[i].Position[2] + enemy[j].Position[2], 2)>>
         IN  IF enemy[i].Owner = enemy[j].Owner
             THEN <<(<<mid, BlockValue(mid)>>)>> \o BlockingFrom(enemy, i, j + 1)
             ELSE BlockingFrom(enemy, i, j + 1)

find_blocking_positions(t, me) ==
    LET enemy_lighthouses == SelectSeq(t.Lighthouses, LAMBDA lh : IsEnemy(lh, me))
        unsorted == BlockingFrom(enemy_lighthouses, 1, 2)
    IN  SelectSeq(unsorted, LAMBDA e : e[2] = 100) \o
        SelectSeq(unsorted, LAMBDA e : e[2] = 50) \o
        SelectSeq(unsorted, LAMBDA e : e[2] = 25)

----------------------------------------------------------------------------
(* find_best_connection.  Areas are halves and the early corner bonus is   *)
(* multiplied by 1.5, so every score is kept doubled (Score2 = 2 * score); *)
(* the comparisons "score > max_score" are unchanged by the doubling.      *)

\* twice calculate_triangle_area
TriangleArea2(p1, p2, p3) ==
    Abs(p1[1] * (p2[2] - p3[2]) + p2[1] * (p3[2] - p1[2]) + p3[1] * (p1[2] - p2[2]))

Quadrant(p) == <<p[1] >= 7, p[2] >= 7>>

ConnectionScore2(cur, target_pos, third_pos, current_turn) ==
    LET corner_bonus2 ==
            IF IsCorner(target_pos) /\ IsCorner(third_pos) THEN 300
            ELSE IF IsCorner(target_pos) \/ IsCorner(third_pos) THEN 120
            ELSE 0
        phased2 == IF current_turn < 30 THEN (corner_bonus2 * 3) \div 2 ELSE corner_bonus2
        edge_count == (IF IsEdgePos(target_pos) THEN 1 ELSE 0) + (IF IsEdgePos(third_pos) THEN 1 ELSE 0)
        quadrants == {Quadrant(cur), Quadrant(target_pos), Quadrant(third_pos)}
        perimeter == Manhattan(cur, target_pos) + Manhattan(target_pos, third_pos)
                     + Manhattan(third_pos, cur)
    IN  TriangleArea2(cur, target_pos, third_pos) + phased2 + edge_count * 40
        + (IF Cardinality(quadrants) >= 2 THEN 80 ELSE 0) + perimeter * 4

\* the two nested loops; acc = [best_target, max_score2]
RECURSIVE BestConnectionFrom(_, _, _, _, _, _)
BestConnectionFrom(owned, i, j, cur, current_turn, acc) ==
    IF i > Len(owned) THEN acc.best_target
    ELSE IF owned[i].Position = cur \/ j > Len(owned)
         THEN BestConnectionFrom(owned, i + 1, 1, cur, current_turn, acc)
    ELSE LET target_pos == owned[i].Position
             third_pos == owned[j].Position
             score2 == ConnectionScore2(cur, target_pos, third_pos, current_turn)
         IN  IF third_pos = cur \/ third_pos = target_pos
             THEN BestConnectionFrom(owned, i, j + 1, cur, current_turn, acc)
             ELSE IF score2 > acc.max_score2
             THEN BestConnectionFrom(owned, i, j + 1, cur, current_turn,
                                     [best_target |-> target_pos, max_score2 |-> score2])
             ELSE BestConnectionFrom(owned, i, j + 1, cur, current_turn, acc)

find_best_connection(cur, owned, current_turn) ==
    IF Len(owned) < 2 THEN None
    ELSE BestConnectionFrom(owned, 1, 1, cur, current_turn,
                            [best_target |-> None, max_score2 |-> 0])

----------------------------------------------------------------------------
(* calculate_zone_control_value.  The triangle term is area * 1.5 with     *)
(* area in halves, so the value is kept multiplied by four (Value4).       *)

PositionalValue(pos, current_turn) ==
    LET x == pos[1]
        y == pos[2]
    IN  IF IsCorner(pos)
        THEN 250 + (IF current_turn < 25 THEN 100 ELSE IF current_turn > 60 THEN -50 ELSE 0)
        ELSE IF x = 0 \/ x = 14 \/ y = 0 \/ y = 14
        THEN 60 + (IF current_turn < 30 THEN 30 ELSE 0)
        ELSE IF 6 <= x /\ x <= 8 /\ 6 <= y /\ y <= 8
        THEN 35 + (IF 20 <= current_turn /\ current_turn <= 50 THEN 20 ELSE 0)
        ELSE IF \/ (x = 1 \/ x = 13) /\ 1 <= y /\ y <= 13
                \/ (y = 1 \/ y = 13) /\ 1 <= x /\ x <= 13
        THEN 25
        ELSE 0

\* twice the largest triangle area of pos with two owned lighthouses
RECURSIVE TrianglePotential2(_, _, _, _, _)
TrianglePotential2(pos, owned, i, j, best) ==
    IF i > Len(owned) THEN best
    ELSE IF j > Len(owned) THEN TrianglePotential2(pos, owned, i + 1, i + 2, best)
    ELSE TrianglePotential2(pos, owned, i, j + 1,
             Max(best, TriangleArea2(pos, owned[i].Position, owned[j].Position)))

RECURSIVE ProximityBonus(_, _, _)
ProximityBonus(pos, owned, i) ==
    IF i > Len(owned) THEN 0
    ELSE LET distance == Manhattan(pos, owned[i].Position)
         IN  (IF distance <= 3 THEN Max(0, 12 - distance * 3) ELSE 0)
             + ProximityBonus(pos, owned, i + 1)

ThreatPenalty(current_turn) ==
    IF current_turn < 15 THEN 5
    ELSE IF current_turn > 50 THEN 35
    ELSE 20

calculate_zone_control_value4(pos, lhs, current_turn, threats, me) ==
    LET owned_lighthouses == OwnedList(lhs, me)
    IN  4 * PositionalValue(pos, current_turn)
        + 3 * TrianglePotential2(pos, owned_lighthouses, 1, 2, 0)
        + 4 * ProximityBonus(pos, owned_lighthouses, 1)
        - (IF pos \in threats THEN 4 * ThreatPenalty(current_turn) ELSE 0)

----------------------------------------------------------------------------
(* new_turn_action, piece by piece                                         *)

energy_reserve == 20

Sign(n) == IF n = 0 THEN 0 ELSE IF n > 0 THEN 1 ELSE -1

MakeAction(kind, dest, energy) == [Action |-> kind, Destination |-> dest, Energy |-> energy]

\* variant: HaveKey is not asked for
possible_connections_NoKey(t, me) ==
    SelectSeq(DictKeys(t.Lighthouses), LAMBDA dest :
        /\ dest # t.Position
        /\ t.Position \notin DictGet(t.Lighthouses, dest).Connections
        /\ DictGet(t.Lighthouses, dest).Owner = me)

\* lines 442-455: the legal connection targets, in dict order
possible_connections(t, me) ==
    SelectSeq(DictKeys(t.Lighthouses), LAMBDA dest :
        /\ dest # t.Position
        /\ DictGet(t.Lighthouses, dest).HaveKey
        /\ t.Position \notin DictGet(t.Lighthouses, dest).Connections
        /\ DictGet(t.Lighthouses, dest).Owner = me)

\* lines 458-476: the destinations the CONNECT can take
ConnectChoices(t, possible, current_turn, me) ==
    LET owned_lighthouses == OwnedList(t.Lighthouses, me)
        best_connection == find_best_connection(t.Position, owned_lighthouses, current_turn)
        blocking_positions == find_blocking_positions(t, me)
        blocking_targets == {blocking_positions[i][1] : i \in DOMAIN blocking_positions}
        strategic_connections == SelectSeq(possible, LAMBDA conn : conn \in blocking_targets)
    IN  IF strategic_connections # <<>> /\ best_connection \in Range(strategic_connections)
        THEN {best_connection}
        ELSE IF strategic_connections # <<>>
        THEN {strategic_connections[1]}
        ELSE IF best_connection # None /\ best_connection \in Range(possible)
        THEN {best_connection}
        ELSE Range(possible)

\* lines 495-505
should_defend(t, me) ==
    \/ Len(OwnedList(t.Lighthouses, me)) <= 2
    \/ \E i \in DOMAIN t.Lighthouses :
          /\ IsEnemy(t.Lighthouses[i], me)
          /\ Manhattan(t.Lighthouses[i].Position, t.Position) <= 3

\* variant: the fallback amount is the amount asked of the allocation
AttackEnergy_Needed(t, lighthouse_energy, current_turn, threats, me) ==
    LET min_energy == lighthouse_energy + 1
        optimal_energy == optimize_energy_allocation(t, min_energy + lighthouse_energy,
                                                     current_turn, threats, me)
    IN  IF optimal_energy >= min_energy
        THEN Min(optimal_energy, t.Energy - energy_reserve)
        ELSE min_energy + lighthouse_energy

\* lines 515-523 and 548-556: the Energy of the ATTACK
AttackEnergy(t, lighthouse_energy, current_turn, threats, me) ==
    LET min_energy == lighthouse_energy + 1
        optimal_energy == optimize_energy_allocation(t, min_energy + lighthouse_energy,
                                                     current_turn, threats, me)
    IN  IF optimal_energy >= min_energy
        THEN Min(optimal_energy, t.Energy - energy_reserve)
        ELSE min_energy

\* lines 586-618: urgency of the lighthouse lh; 0 when it is skipped as too far
UrgencyScore(t, lh, rotation_target, blocking_positions, current_turn, threats, me) ==
    LET distance_to_target == Manhattan(t.Position, lh.Position)
        hits == SelectSeq(blocking_positions, LAMBDA e : e[1] = lh.Position)
        blocking_bonus == IF hits = <<>> THEN 0 ELSE hits[1][2]
        required_energy == IF lh.Owner # 0 THEN lh.Energy + 1 ELSE 1
    IN  IF rotation_target # None
           /\ distance_to_target > Manhattan(t.Position, rotation_target) * 2
        THEN 0
        ELSE (IF lh.Owner = 0 /\ IsCorner(lh.Position) /\ current_turn < 25 THEN 200 ELSE 0)
             + (IF IsEnemy(lh, me) /\ blocking_bonus >= 50 THEN 150 ELSE 0)
             + (IF /\ lh.Owner # me
                   /\ optimize_energy_allocation(t, required_energy, current_turn, threats, me)
                        >= required_energy
                   /\ distance_to_target <= 3
                THEN 100 ELSE 0)

\* lines 621-624: the urgent target, None when there is none.  The list is
\* sorted by (-urgency, distance) with a stable sort and its head is taken.
UrgentTarget(t, rotation_target, current_turn, threats, me) ==
    LET lhs == t.Lighthouses
        blocking_positions == find_blocking_positions(t, me)
        score(i) == UrgencyScore(t, lhs[i], rotation_target, blocking_positions,
                                 current_turn, threats, me)
        dist(i) == Manhattan(t.Position, lhs[i].Position)
        urgent == {i \in DOMAIN lhs : score(i) >= 150}
        before(i, j) == \/ score(i) > score(j)
                        \/ score(i) = score(j) /\ dist(i) < dist(j)
                        \/ score(i) = score(j) /\ dist(i) = dist(j) /\ i < j
    IN  IF urgent = {} THEN None
        ELSE lhs[CHOOSE i \in urgent : \A j \in urgent : j = i \/ before(i, j)].Position

\* variant: the cursor is advanced without wrapping round
AdvanceIndex_NoWrap(index, queue) == index + 1

\* "(self.current_target_index + 1) % max(1, len(self.lighthouse_target_queue))"
AdvanceIndex(index, queue) == (index + 1) % Max(1, Len(queue))

\* lines 652-690: the moves the strategic positioning can pick
StrategicCandidates(t) == SelectSeq(Steps, LAMBDA d : OnBoard(Step(t.Position, d)))

StrategicValue4(t, d, current_turn, threats, known, me) ==
    LET test_pos == Step(t.Position, d)
    IN  calculate_zone_control_value4(test_pos, t.Lighthouses, current_turn, threats, me)
        + (IF current_turn < 20
           THEN (IF IsCorner(test_pos) THEN 600
                 ELSE IF test_pos[1] = 0 \/ test_pos[1] = 14 \/ test_pos[2] = 0 \/ test_pos[2] = 14
                      THEN 300 ELSE 0)
           ELSE 0)
        - (IF test_pos \in threats THEN 120 ELSE 0)
        + (IF test_pos \notin known THEN 80 ELSE 0)

\* lines 692-714: no neighbour on the board was scored
FallbackRandomMoves(t, current_turn) ==
    LET edge_moves == {d \in Range(Steps) :
                          LET n == Step(t.Position, d)
                          IN  /\ OnBoard(n)
                              /\ Min(Min(n[1], n[2]), Min(14 - n[1], 14 - n[2])) <= 2}
    IN  IF current_turn < 15 /\ edge_moves # {} THEN edge_moves ELSE Range(Steps)

\* "strategic_moves.sort(key=lambda x: x[1], reverse=True)" is a stable sort:
\* head(among) is the index that comes first among the indices in `among`
StrategicMoves(t, current_turn, threats, known, me) ==
    LET cands == StrategicCandidates(t)
        val(d) == StrategicValue4(t, d, current_turn, threats, known, me)
        head(among) == CHOOSE i \in among : \A j \in among :
                          \/ j = i
                          \/ val(cands[i]) > val(cands[j])
                          \/ val(cands[i]) = val(cands[j]) /\ i < j
        first == head(DOMAIN cands)
        second == head(DOMAIN cands \ {first})
    IN  IF cands = <<>> THEN FallbackRandomMoves(t, current_turn)
        ELSE IF Len(cands) > 1 /\ current_turn > 10 THEN {cands[first], cands[second]}
        ELSE {cands[first]}

\* variant: only a step back to another cell counts as a return
AntiOscillation_Previous(pos, move, last) ==
    LET alternative_moves == {d \in Range(Steps) : Step(pos, d) # last}
    IN  IF Step(pos, move) = last /\ last # pos /\ alternative_moves # {}
        THEN alternative_moves
        ELSE {move}

\* variant: the move is kept as it is
AntiOscillation_Keep(pos, move, last) == {move}

\* lines 719-733: the moves left after the check against (lastX, lastY)
AntiOscillation(pos, move, last) ==
    LET alternative_moves == {d \in Range(Steps) : Step(pos, d) # last}
    IN  IF Step(pos, move) = last /\ alternative_moves # {}
        THEN alternative_moves
        ELSE {move}

\* variant: a step off the board is answered with a PASS
BoundaryCorrection_Pass(pos, move, last) ==
    IF ~OnBoard(Step(pos, move))
    THEN {MakeAction("PASS", pos, 0)}
    ELSE {MakeAction("MOVE", Step(pos, move), 0)}

\* lines 736-765: the action built from the move
BoundaryCorrection(pos, move, last) ==
    LET valid_moves == {d \in Range(Steps) : OnBoard(Step(pos, d)) /\ Step(pos, d) # last}
    IN  IF ~OnBoard(Step(pos, move))
        THEN IF valid_moves # {}
             THEN {MakeAction("MOVE", Step(pos, d), 0) : d \in valid_moves}
             ELSE {MakeAction("PASS", pos, 0)}
        ELSE {MakeAction("MOVE", Step(pos, move), 0)}

\* variant: the step is taken as chosen, on the board or not
FinalActions_Unchecked(pos, move, last) ==
    {MakeAction("MOVE", Step(pos, m), 0) : m \in AntiOscillation(pos, move, last)}

\* lines 716-771
FinalActions(pos, move, last) ==
    UNION {BoundaryCorrection(pos, m, last) : m \in AntiOscillation(pos, move, last)}

\* lines 628-649 and 716-771: steer to best_lighthouse.  Results are records
\* [action, index]: the action returned and current_target_index after the call.
MoveToTarget(pos, best_lighthouse, rotation_target, path, index1, queue, last) ==
    LET usable == path # None /\ Len(path) > 1
        move == IF usable
                THEN <<path[2][1] - pos[1], path[2][2] - pos[2]>>
                ELSE <<Sign(best_lighthouse[1] - pos[1]), Sign(best_lighthouse[2] - pos[2])>>
        index2 == IF /\ usable
                     /\ best_lighthouse = rotation_target
                     /\ Manhattan(pos, best_lighthouse) <= 2
                  THEN AdvanceIndex(index1, queue)
                  ELSE index1
    IN  IF path = Diverged
        THEN {[action |-> MakeAction("DIVERGED", pos, 0), index |-> index1]}
        ELSE {[action |-> a, index |-> index2] : a \in FinalActions(pos, move, last)}

\* lines 571-714: the turn goes on to movement.  (The bindings "x \in {e}"
\* only name the value of e.)
Movement(t, queue, index, cache, threats, known, current_turn, me, last) ==
    UNION {
      UNION {
        LET rotation_target == next.target
            best_lighthouse == IF urgent # None THEN urgent ELSE rotation_target
            index1 == IF urgent # None THEN AdvanceIndex(next.index, queue) ELSE next.index
        IN  IF best_lighthouse # None
            THEN UNION {MoveToTarget(t.Position, best_lighthouse, rotation_target, path,
                                     index1, queue, last) :
                          path \in {a_star_pathfind(cache, t.Position, best_lighthouse, threats)}}
            ELSE {[action |-> a, index |-> index1] :
                     a \in UNION {FinalActions(t.Position, m, last) :
                                    m \in StrategicMoves(t, current_turn, threats, known, me)}}
        : urgent \in {UrgentTarget(t, next.target, current_turn, threats, me)}}
      : next \in {get_next_lighthouse_target(queue, index, t.Lighthouses, me)}}

\* lines 439-771: the decision once the snapshot has been taken in
Decide(t, queue, index, cache, threats, known, current_turn, me, last) ==
    LET pos == t.Position
        lhs == t.Lighthouses
        here == DictGet(lhs, pos)
        possible == possible_connections(t, me)
        stay(a) == {[action |-> a, index |-> index]}
        move == Movement(t, queue, index, cache, threats, known, current_turn, me, last)
    IN  IF pos \notin Range(DictKeys(lhs)) THEN move
        ELSE IF here.Owner = me
        THEN IF possible # <<>>
             THEN UNION {stay(MakeAction("CONNECT", dest, 0)) :
                           dest \in ConnectChoices(t, possible, current_turn, me)}
             ELSE IF ~should_defend(t, me) THEN move
             ELSE IF t.Energy > here.Energy
             THEN stay(MakeAction("ATTACK", pos,
                                  AttackEnergy(t, here.Energy, current_turn, threats, me)))
             ELSE stay(MakeAction("PASS", pos, 0))
        ELSE IF t.Energy > here.Energy
        THEN stay(MakeAction("ATTACK", pos,
                             AttackEnergy(t, here.Energy, current_turn, threats, me)))
        ELSE move

\* lines 421-426: the positions memorised from the snapshot
KnownAfter(known, t) == known \cup {t.Lighthouses[i].Position : i \in DOMAIN t.Lighthouses}

----------------------------------------------------------------------------
(* Bounds of the model                                                     *)

\* a_star_pathfind alone: coordinates 0..AStarSpan and the far edge
AStarSpan == 2

\* at most this many obstacle cells
MaxObstacles == 3

\* calls of a_star_pathfind with the same arguments (the second hits the cache)
MaxCalls == 2

\* turns played by one BotGame
MaxTurns == 2

\* owners of a lighthouse are 0 (nobody) .. MaxOwner; the agent is player 1
MaxOwner == 2

AStarCoords == (0 .. AStarSpan) \cup {map_width - 1}

AStarCells == AStarCoords \X AStarCoords

ObstacleCells == {<<0, 0>>, <<0, 1>>, <<1, 0>>, <<1, 1>>, <<1, 2>>, <<2, 1>>}

ObstacleSets == {o \in SUBSET ObstacleCells : Cardinality(o) <= MaxObstacles}

----------------------------------------------------------------------------
(* State after BotGame.__init__                                            *)

NoTurn == [Position |-> <<0, 0>>, Energy |-> 0, Lighthouses |-> <<>>]

NoAction == [Action |-> "NONE", Destination |-> <<0, 0>>, Energy |-> 0]

BotGameInit ==
    /\ player_num = 1
    /\ countT = 1
    /\ lastX = 0
    /\ lastY = 0
    /\ turn_history = 0
    /\ turn_states = 0
    /\ known_lighthouse_positions = {}
    /\ threat_zones = {}
    /\ pathfinding_cache = <<>>
    /\ lighthouse_target_queue = <<>>
    /\ current_target_index = 0
    /\ turn = NoTurn
    /\ action = NoAction
    /\ pc = "idle"
    /\ initial_state = None

\* no function is called on its own, no call is in the hands of a thread
FunIdle == fn_args = None /\ fn_result = None /\ fn_calls = 0

PoolIdle == inflight = <<>>

----------------------------------------------------------------------------
(* SpecAStar: a_star_pathfind called on a fresh BotGame, then called again *)
(* with the same arguments                                                 *)

AStarInit ==
    /\ BotGameInit
    /\ a_start \in AStarCells
    /\ a_goal \in AStarCells
    /\ a_obstacles \in ObstacleSets
    /\ a_path = None
    /\ a_calls = 0
    /\ FunIdle
    /\ PoolIdle

AStarCall ==
    /\ a_calls < MaxCalls
    /\ a_calls' = a_calls + 1
    /\ a_path' = a_star_pathfind(pathfinding_cache, a_start, a_goal, a_obstacles)
    /\ pathfinding_cache' = CacheAfter(pathfinding_cache, a_start, a_goal, a_obstacles, a_path')
    /\ UNCHANGED <<a_start, a_goal, a_obstacles>>
    /\ UNCHANGED engineVars
    /\ UNCHANGED <<funVars, poolVars>>

AStarNext == AStarCall

SpecAStar == AStarInit /\ [][AStarNext]_vars

----------------------------------------------------------------------------
(* Spec: one BotGame fed a sequence of snapshots                           *)

\* The lighthouses of the game.  (1,1) is the midpoint of (0,0) and (2,2),
\* which are two cells apart; (9,0) is more than six cells from the others.
Roster == <<(<<0, 0>>), (<<1, 1>>), (<<2, 2>>), (<<9, 0>>)>>

\* their energy, key flag and connections
RosterEnergy == <<0, 10, 10, 20>>

RosterHaveKey == <<TRUE, TRUE, FALSE, TRUE>>

RosterConnections == <<{}, {}, {}, {<<0, 0>>}>>

\* the agent stands on the corner lighthouse, on the far lighthouse or on a
\* free cell next to the corner
AgentCells == {<<0, 0>>, <<9, 0>>, <<1, 0>>}

AgentEnergies == {5, 15, 50}

\* how many lighthouses of the roster a snapshot shows
VisibleCounts == {0, 2, Len(Roster)}

Owners == 0 .. MaxOwner

\* the first `visible` lighthouses of the roster with the owners `owner`
Snapshot(pos, energy, visible, owner) ==
    [Position    |-> pos,
     Energy      |-> energy,
     Lighthouses |-> [i \in 1 .. visible |->
                        [Position    |-> Roster[i],
                         Owner       |-> owner[i],
                         Energy      |-> RosterEnergy[i],
                         HaveKey     |-> RosterHaveKey[i],
                         Connections |-> RosterConnections[i]]]]

Init ==
    /\ BotGameInit
    /\ a_start = <<0, 0>>
    /\ a_goal = <<0, 0>>
    /\ a_obstacles = {}
    /\ a_path = None
    /\ a_calls = 0
    /\ FunIdle
    /\ PoolIdle

\* ClientServer.Turn: new_turn_action(t) runs from its first line to its
\* return.  The search result does not depend on pathfinding_cache (an entry
\* is the path the search finds for its key, see CacheCoherent), so the cache
\* is followed in SpecAStar and left as it is here.
Turn(t) ==
    /\ lastX' = t.Position[1]
    /\ lastY' = t.Position[2]
    /\ turn_history' = turn_history + 1
    /\ turn' = t
    /\ threat_zones' = predict_enemy_movement(threat_zones, t, player_num)
    /\ known_lighthouse_positions' = KnownAfter(known_lighthouse_positions, t)
    /\ lighthouse_target_queue' \in
           update_lighthouse_rotation_queue(lighthouse_target_queue, known_lighthouse_positions')
    /\ \E o \in Decide(t, lighthouse_target_queue', current_target_index, pathfinding_cache,
                       threat_zones', known_lighthouse_positions', turn_history',
                       player_num, <<lastX', lastY'>>) :
          /\ action' = o.action
          /\ current_target_index' = o.index
    /\ turn_states' = turn_states + 1
    /\ countT' = countT + 1
    /\ pc' = "returned"
    /\ UNCHANGED <<player_num, pathfinding_cache, initial_state>>
    /\ UNCHANGED <<astarVars, funVars, poolVars>>

NewTurn ==
    /\ pc = "idle"
    /\ turn_history < MaxTurns
    /\ \E pos \in AgentCells, energy \in AgentEnergies, visible \in VisibleCounts :
         \E owner \in [1 .. visible -> Owners] :
             \E t \in {Snapshot(pos, energy, visible, owner)} : Turn(t)

\* the reply has been sent: the request and the reply are gone
Reply ==
    /\ pc = "returned"
    /\ pc' = "idle"
    /\ turn' = NoTurn
    /\ action' = NoAction
    /\ UNCHANGED <<player_num, countT, lastX, lastY, turn_history, turn_states,
                   known_lighthouse_positions, threat_zones, pathfinding_cache,
                   lighthouse_target_queue, current_target_index, initial_state>>
    /\ UNCHANGED <<astarVars, funVars, poolVars>>

Next == NewTurn \/ Reply

Spec == Init /\ [][Next]_vars

----------------------------------------------------------------------------
(* Claims about new_turn_action (Spec)                                     *)

Returned == pc = "returned"

ActionKinds == {"MOVE", "ATTACK", "CONNECT", "PASS"}

SnapshotOnBoard(t) ==
    /\ OnBoard(t.Position)
    /\ \A i \in DOMAIN t.Lighthouses : OnBoard(t.Lighthouses[i].Position)

\* the lighthouse of the snapshot the agent stands on, if any
StandsOn(t) == {t.Lighthouses[i] : i \in {j \in DOMAIN t.Lighthouses :
                                              t.Lighthouses[j].Position = t.Position}}

\* C1: for a snapshot whose positions are all on the board, the Destination
\* of the returned action lies in [0,15) x [0,15), whatever its kind.
C1_DestinationOnBoard ==
    (Returned /\ SnapshotOnBoard(turn)) =>
        /\ action.Action \in ActionKinds
        /\ 0 <= action.Destination[1] /\ action.Destination[1] < 15
        /\ 0 <= action.Destination[2] /\ action.Destination[2] < 15

\* C1 witness: the agent stands on a lighthouse of the bottom row that it
\* neither owns nor can attack, so the turn goes on to movement at the edge
\* of the board, and a MOVE to a cell of the board is returned.
C1_Witness ==
    /\ Returned
    /\ action.Action = "MOVE"
    /\ turn.Position[2] = 0
    /\ \E lh \in StandsOn(turn) : lh.Owner # player_num /\ turn.Energy <= lh.Energy
    /\ OnBoard(action.Destination)

\* C2: a CONNECT goes to a lighthouse of the snapshot other than the agent's
\* cell, owned by the agent, with HaveKey, not yet connected to the agent's cell.
C2_ConnectLegal ==
    (Returned /\ action.Action = "CONNECT") =>
        \E i \in DOMAIN turn.Lighthouses :
            /\ turn.Lighthouses[i].Position = action.Destination
            /\ action.Destination # turn.Position
            /\ turn.Lighthouses[i].Owner = player_num
            /\ turn.Lighthouses[i].HaveKey
            /\ turn.Position \notin turn.Lighthouses[i].Connections

\* C2 witness: a CONNECT is returned while another lighthouse the agent owns
\* is no legal target (no key, or already connected to the agent's cell).
C2_Witness ==
    /\ Returned
    /\ action.Action = "CONNECT"
    /\ \E i \in DOMAIN turn.Lighthouses :
          /\ turn.Lighthouses[i].Owner = player_num
          /\ turn.Lighthouses[i].Position # turn.Position
          /\ \/ ~turn.Lighthouses[i].HaveKey
             \/ turn.Position \in turn.Lighthouses[i].Connections

\* C3 (as claimed): the Energy of an ATTACK lies between 0 and the agent's
\* energy minus the dynamic reserve of that turn.
C3_AttackWithinReserve ==
    (Returned /\ action.Action = "ATTACK") =>
        /\ 0 <= action.Energy
        /\ action.Energy <= turn.Energy
                            - dynamic_reserve(turn, turn_history, threat_zones, player_num)

\* C4 (as claimed): an ATTACK on a lighthouse the agent does not own, made
\* with energy of at least lighthouseEnergy + 1, commits at least that much.
C4_CaptureThreshold ==
    (Returned /\ action.Action = "ATTACK") =>
        \A lh \in StandsOn(turn) :
            (lh.Owner # player_num /\ turn.Energy >= lh.Energy + 1)
                => action.Energy >= lh.Energy + 1

\* C5: every call returns, and what it returns is a MOVE, an ATTACK, a
\* CONNECT or a PASS: the search loop and the scan of the queue end by
\* themselves (no Diverged result) and the MOVE is built from a chosen move.
C5_AlwaysAnAction ==
    /\ pc \in {"idle", "returned"}
    /\ Returned => action.Action \in ActionKinds

\* C5 witness: a lighthouse of the snapshot lies in a threat zone, so that no
\* path leads to it, the turn went on to movement and a MOVE is returned.
C5_Witness ==
    /\ Returned
    /\ action.Action = "MOVE"
    /\ turn.Position \notin threat_zones
    /\ \E i \in DOMAIN turn.Lighthouses :
          /\ turn.Lighthouses[i].Position \in threat_zones
          /\ a_star_pathfind(pathfinding_cache, turn.Position,
                             turn.Lighthouses[i].Position, threat_zones) = None

\* C6: whenever the rotation queue is not empty the cursor indexes into it.
C6_CursorInQueue ==
    lighthouse_target_queue # <<>> =>
        /\ 0 <= current_target_index
        /\ current_target_index < Len(lighthouse_target_queue)

\* C6 witness: after a turn on which the queue grew the cursor stands on its
\* last entry.
C6_Witness ==
    /\ Returned
    /\ turn_history = 2
    /\ Len(lighthouse_target_queue) = Len(Roster)
    /\ current_target_index = Len(lighthouse_target_queue) - 1

HasNeighbourToMoveTo(pos, last) ==
    \E d \in Range(Steps) : OnBoard(Step(pos, d)) /\ Step(pos, d) # last

C8_NoBacktrack ==
    [][(/\ pc = "idle" /\ pc' = "returned"
        /\ turn_history >= 1
        /\ turn'.Position # <<lastX, lastY>>
        /\ \E d \in Range(Steps) : /\ OnBoard(Step(turn'.Position, d))
                                   /\ Step(turn'.Position, d) # <<lastX, lastY>>
        /\ action'.Action = "MOVE")
       => action'.Destination # <<lastX, lastY>>]_vars

\* C23: a MOVE returned for a snapshot taken on the board goes to one of the
\* 8 neighbours of the agent's cell, never to that cell itself.
C23_MoveByOneStep ==
    (Returned /\ OnBoard(turn.Position) /\ action.Action = "MOVE") =>
        Chebyshev(action.Destination, turn.Position) = 1

\* C23 witness: the agent stands on the lighthouse the rotation cursor points
\* at (the search returns a path of length one), and a MOVE is returned.
C23_Witness ==
    /\ Returned
    /\ action.Action = "MOVE"
    /\ StandsOn(turn) # {}
    /\ current_target_index < Len(lighthouse_target_queue)
    /\ lighthouse_target_queue[current_target_index + 1] = turn.Position
    /\ turn_history = 1

----------------------------------------------------------------------------
(* Claims about a_star_pathfind (SpecAStar)                                *)

Called == a_calls >= 1

\* the cells reachable from `frontier` through cells that are no obstacles
RECURSIVE Flood(_, _, _)
Flood(seen, frontier, obstacles) ==
    LET fresh == {n \in UNION {Range(get_neighbors(c)) : c \in frontier} :
                    n \notin obstacles /\ n \notin seen}
    IN  IF fresh = {} THEN seen ELSE Flood(seen \cup fresh, fresh, obstacles)

ReachableFrom(start, obstacles) == Flood({start}, {start}, obstacles)

ValidPath(path, start, goal, obstacles) ==
    /\ Len(path) >= 1
    /\ path[1] = start
    /\ path[Len(path)] = goal
    /\ \A i \in DOMAIN path : OnBoard(path[i])
    /\ \A i \in 1 .. Len(path) - 1 : Chebyshev(path[i], path[i + 1]) = 1
    /\ \A i \in 2 .. Len(path) : path[i] \notin obstacles

\* C9: without obstacles the path has exactly Chebyshev(start, goal) steps.
C9_ObstacleFreeLength ==
    (Called /\ a_obstacles = {}) =>
        /\ a_path # None
        /\ Len(a_path) - 1 = Max(Abs(a_start[1] - a_goal[1]), Abs(a_start[2] - a_goal[2]))

\* C9 witness: an obstacle-free search across the board between cells that
\* share neither a row, a column nor a diagonal.
C9_Witness ==
    /\ Called
    /\ a_obstacles = {}
    /\ Len(a_path) = map_width
    /\ Abs(a_start[1] - a_goal[1]) \notin {0, Abs(a_start[2] - a_goal[2])}
    /\ a_start[2] # a_goal[2]

\* C10: the result is None or a path from start to goal over board cells,
\* each an 8-neighbour of the one before and none after start an obstacle;
\* it is None exactly when start # goal and goal cannot be reached (a path
\* as above shows that goal can be reached, so only None needs the flood).
C10_PathOrNone ==
    Called =>
        /\ a_path # None => ValidPath(a_path, a_start, a_goal, a_obstacles)
        /\ a_path = None => /\ a_start # a_goal
                            /\ a_goal \notin ReachableFrom(a_start, a_obstacles)

\* C10 witness: the goal is no obstacle itself but is walled in, and the
\* result is None.
C10_Witness ==
    /\ Called
    /\ a_path = None
    /\ a_goal \notin a_obstacles
    /\ a_start \notin a_obstacles

\* breadth-first distance: `frontier` holds the cells exactly `steps` steps
\* from the start
RECURSIVE StepsFrom(_, _, _, _, _)
StepsFrom(seen, frontier, steps, goal, obstacles) ==
    IF goal \in frontier THEN steps
    ELSE LET fresh == {n \in UNION {Range(get_neighbors(c)) : c \in frontier} :
                         n \notin obstacles /\ n \notin seen}
         IN  IF fresh = {} THEN -1
             ELSE StepsFrom(seen \cup fresh, fresh, steps + 1, goal, obstacles)

\* the least number of steps of an 8-directional path from start to goal
\* that enters no obstacle; -1 when there is none
ShortestSteps(start, goal, obstacles) == StepsFrom({start}, {start}, 0, goal, obstacles)

\* C21: a path returned by a_star_pathfind has the minimum number of steps
\* among the 8-directional paths from start to goal that avoid the obstacles.
C21_ShortestPath ==
    (Called /\ a_path # None) =>
        Len(a_path) - 1 = ShortestSteps(a_start, a_goal, a_obstacles)

\* every entry of the cache is the path the search finds for its key
CacheCoherent ==
    \A k \in DOMAIN pathfinding_cache : pathfinding_cache[k] = AStarSearch(k[1], k[2], k[3])

----------------------------------------------------------------------------
(* SpecConnect: the choice of the CONNECT destination (lines 457-476) on   *)
(* its own.  The agent stands on its lighthouse ConnectHere; the other     *)
(* lighthouses of the snapshot come in every order, with every owner and   *)
(* with or without key.  The choice reads turn_history only, which says    *)
(* how many snapshots the BotGame has taken in, this one included.         *)

\* snapshots taken in when the choice is made, the one in hand included
ConnectTurns == {1, 30}

ConnectHere == <<9, 0>>

ConnectOthers == {<<0, 0>>, <<1, 1>>, <<2, 2>>}

ConnectOwners == {1, 2}

ConnectSnapshot(order, owner, key) ==
    [Position    |-> ConnectHere,
     Energy      |-> 50,
     Lighthouses |-> [i \in 1 .. Len(order) |->
                        [Position    |-> order[i],
                         Owner       |-> owner[order[i]],
                         Energy      |-> 10,
                         HaveKey     |-> key[order[i]],
                         Connections |-> {}]]
                     \o <<[Position |-> ConnectHere, Owner |-> 1, Energy |-> 10,
                           HaveKey |-> TRUE, Connections |-> {}]>>]

\* a BotGame that has just taken in its n-th snapshot, at pos (lines 410-416),
\* with the memory the earlier turns left
Memory(n, pos, known, threats, queue, index) ==
    /\ player_num = 1
    /\ countT = n
    /\ lastX = pos[1]
    /\ lastY = pos[2]
    /\ turn_history = n
    /\ turn_states = n - 1
    /\ known_lighthouse_positions = known
    /\ threat_zones = threats
    /\ pathfinding_cache = <<>>
    /\ lighthouse_target_queue = queue
    /\ current_target_index = index
    /\ turn = NoTurn
    /\ action = NoAction
    /\ pc = "idle"
    /\ initial_state = None

\* the same, having seen no lighthouse before
TakenIn(n, pos) == Memory(n, pos, {}, {}, <<>>, 0)

AStarIdle ==
    /\ a_start = <<0, 0>>
    /\ a_goal = <<0, 0>>
    /\ a_obstacles = {}
    /\ a_path = None
    /\ a_calls = 0

ConnectInit ==
    /\ \E n \in ConnectTurns : TakenIn(n, ConnectHere)
    /\ AStarIdle
    /\ PoolIdle
    /\ fn_args \in {ConnectSnapshot(order, owner, key) :
                      order \in Orderings(ConnectOthers),
                      owner \in [ConnectOthers -> ConnectOwners],
                      key \in [ConnectOthers -> BOOLEAN]}
    /\ fn_result = None
    /\ fn_calls = 0

\* lines 457-480: "if possible_connections:" ... the CONNECT is built
ConnectCall ==
    /\ fn_calls = 0
    /\ possible_connections(fn_args, player_num) # <<>>
    /\ \E dest \in ConnectChoices(fn_args, possible_connections(fn_args, player_num),
                                  turn_history, player_num) :
          fn_result' = MakeAction("CONNECT", dest, 0)
    /\ fn_calls' = 1
    /\ UNCHANGED fn_args
    /\ UNCHANGED <<engineVars, pathfinding_cache, astarVars, poolVars>>

ConnectNext == ConnectCall

SpecConnect == ConnectInit /\ [][ConnectNext]_vars

\* twice the total score of the legal candidate c: the score of its triangle
\* with the best third lighthouse the agent owns, 0 when there is no third
CandidateScore2(t, c, current_turn, me) ==
    LET thirds == {t.Lighthouses[i].Position : i \in {j \in DOMAIN t.Lighthouses :
                       /\ t.Lighthouses[j].Owner = me
                       /\ t.Lighthouses[j].Position \notin {t.Position, c}}}
        scores == {ConnectionScore2(t.Position, c, s, current_turn) : s \in thirds}
    IN  IF thirds = {} THEN 0 ELSE CHOOSE m \in scores : \A k \in scores : k <= m

\* C11 (as claimed): when one legal candidate has the strictly highest total
\* score and that score is above zero, the CONNECT goes to that candidate.
C11_ConnectsToBest ==
    fn_calls = 1 =>
        LET legal == Range(possible_connections(fn_args, player_num))
            score(c) == CandidateScore2(fn_args, c, turn_history, player_num)
        IN  \A c \in legal :
                (score(c) > 0 /\ \A d \in legal \ {c} : score(d) < score(c))
                    => fn_result.Destination = c

----------------------------------------------------------------------------
(* SpecEnergy: optimize_energy_allocation on its own                       *)

\* the agent's energy is 0 .. MaxEnergy
MaxEnergy == 30

\* target_energy_needed is 0 .. MaxTarget
MaxTarget == 30

\* snapshots taken in so far: one for each base reserve
EnergyTurns == {1, 20, 50}

EnergyHere == <<7, 7>>

\* what is in view: nothing, an opposing lighthouse two cells away, or three
\* lighthouses of the agent far away
EnergyViews ==
    {<<>>,
     <<[Position |-> <<7, 9>>, Owner |-> 2, Energy |-> 10, HaveKey |-> FALSE,
        Connections |-> {}]>>,
     [i \in 1 .. 3 |-> [Position |-> <<0, 4 * i>>, Owner |-> 1, Energy |-> 10,
                        HaveKey |-> FALSE, Connections |-> {}]]}

\* threat_zones: empty, or the twenty cells that four opposing pairs
\* (0, y) - (6, y), y = 1 .. 4, seen on earlier turns have left
EnergyThreats == {{}, (1 .. 5) \X (1 .. 4)}

EnergyInit ==
    /\ \E n \in EnergyTurns, threats \in EnergyThreats :
          Memory(n, EnergyHere, {}, threats, <<>>, 0)
    /\ AStarIdle
    /\ PoolIdle
    /\ fn_args \in {[turn |-> [Position |-> EnergyHere, Energy |-> energy, Lighthouses |-> view],
                     target_energy_needed |-> target] :
                      energy \in 0 .. MaxEnergy, target \in 0 .. MaxTarget,
                      view \in EnergyViews}
    /\ fn_result = None
    /\ fn_calls = 0

EnergyCall ==
    /\ fn_calls = 0
    /\ fn_result' = optimize_energy_allocation(fn_args.turn, fn_args.target_energy_needed,
                                               turn_history, threat_zones, player_num)
    /\ fn_calls' = 1
    /\ UNCHANGED fn_args
    /\ UNCHANGED <<engineVars, pathfinding_cache, astarVars, poolVars>>

EnergyNext == EnergyCall

SpecEnergy == EnergyInit /\ [][EnergyNext]_vars

\* C12 (as claimed): the result is min(max(0, E - reserve), T); it lies in
\* [0, E] and is 0 whenever E <= reserve.
C12_EnergyFormula ==
    fn_calls = 1 =>
        LET E == fn_args.turn.Energy
            T == fn_args.target_energy_needed
            reserve == dynamic_reserve(fn_args.turn, turn_history, threat_zones, player_num)
        IN  /\ fn_result = Min(Max(0, E - reserve), T)
            /\ 0 <= fn_result /\ fn_result <= E
            /\ E <= reserve => fn_result = 0

----------------------------------------------------------------------------
(* SpecTarget: get_next_lighthouse_target on its own.  The queue holds     *)
(* some of the lighthouses of TargetRoster in any order (each may have     *)
(* been found on a turn of its own), the cursor is anywhere in it, and the *)
(* snapshot shows some of the queued lighthouses (the queue has been       *)
(* brought up to date at line 438) with any owners.                        *)

TargetRoster == {<<0, 0>>, <<3, 0>>, <<9, 0>>}

TargetHere == <<7, 7>>

TargetQueues == UNION {Orderings(S) : S \in SUBSET TargetRoster}

\* the lighthouses `seen`, in the order of `queue`, with the owners `owner`
TargetView(queue, seen, owner) ==
    LET order == SelectSeq(queue, LAMBDA p : p \in seen)
    IN  [i \in 1 .. Len(order) |->
            [Position |-> order[i], Owner |-> owner[order[i]], Energy |-> 10,
             HaveKey |-> FALSE, Connections |-> {}]]

TargetInit ==
    /\ \E queue \in TargetQueues :
          /\ \E index \in 0 .. Max(0, Len(queue) - 1) :
                /\ Memory(1, TargetHere, Range(queue), {}, queue, index)
                /\ \E seen \in SUBSET Range(queue), owner \in [TargetRoster -> Owners] :
                      fn_args = [current_pos |-> TargetHere,
                                 lighthouses |-> TargetView(queue, seen, owner),
                                 cursor      |-> index]
    /\ AStarIdle
    /\ PoolIdle
    /\ fn_result = None
    /\ fn_calls = 0

TargetCall ==
    /\ fn_calls = 0
    /\ \E r \in {get_next_lighthouse_target(lighthouse_target_queue, current_target_index,
                                            fn_args.lighthouses, player_num)} :
          /\ fn_result' = r.target
          /\ current_target_index' = r.index
    /\ fn_calls' = 1
    /\ UNCHANGED fn_args
    /\ UNCHANGED <<player_num, countT, lastX, lastY, turn_history, turn_states,
                   known_lighthouse_positions, threat_zones, pathfinding_cache,
                   lighthouse_target_queue, turn, action, pc, initial_state>>
    /\ UNCHANGED <<astarVars, poolVars>>

TargetNext == TargetCall

SpecTarget == TargetInit /\ [][TargetNext]_vars

\* the snapshot reports p as the agent's / an opposing lighthouse is within
\* Manhattan distance 4 of p
ReportedOwn(lhs, p, me) ==
    \E i \in DOMAIN lhs : lhs[i].Position = p /\ lhs[i].Owner = me

OpponentWithin4(lhs, p, me) ==
    \E i \in DOMAIN lhs : /\ lhs[i].Owner \notin {0, me}
                          /\ Manhattan(lhs[i].Position, p) <= 4

\* C13 (as claimed): the position returned is not one the snapshot reports
\* as the agent's, unless an opposing lighthouse is within distance 4 of it.
C13_NeverOwnUndefended ==
    (fn_calls = 1 /\ fn_result # None) =>
        (ReportedOwn(fn_args.lighthouses, fn_result, player_num)
            => OpponentWithin4(fn_args.lighthouses, fn_result, player_num))

\* C13 (amended): the position returned is one the snapshot reports as the
\* agent's with no opposing lighthouse within distance 4 only when that is so
\* for every position of the queue; it is then the first entry of the queue
\* and the cursor is back at 0.  Nothing is returned only for an empty queue.
C13_OwnOnlyWhenAllOwn ==
    fn_calls = 1 =>
        LET lhs == fn_args.lighthouses
            settled(p) == /\ ReportedOwn(lhs, p, player_num)
                          /\ ~OpponentWithin4(lhs, p, player_num)
        IN  /\ fn_result = None <=> lighthouse_target_queue = <<>>
            /\ fn_result # None =>
                  /\ fn_result \in Range(lighthouse_target_queue)
                  /\ settled(fn_result) =>
                        /\ \A q \in Range(lighthouse_target_queue) : settled(q)
                        /\ fn_result = lighthouse_target_queue[1]
                        /\ current_target_index = 0

\* C13 witness: the entry at the cursor is the agent's and needs no defence,
\* it is passed over and a lighthouse that is not the agent's is returned.
C13_Witness ==
    /\ fn_calls = 1
    /\ fn_result # None
    /\ ~ReportedOwn(fn_args.lighthouses, fn_result, player_num)
    /\ ReportedOwn(fn_args.lighthouses, lighthouse_target_queue[fn_args.cursor + 1], player_num)
    /\ ~OpponentWithin4(fn_args.lighthouses, lighthouse_target_queue[fn_args.cursor + 1],
                        player_num)
    /\ current_target_index # fn_args.cursor

----------------------------------------------------------------------------
(* Claims about the memory kept from turn to turn (Spec)                   *)

IsPrefix(p, q) == Len(p) <= Len(q) /\ \A i \in DOMAIN p : q[i] = p[i]

NoDuplicates(q) == \A i, j \in DOMAIN q : q[i] = q[j] => i = j

\* C14: from one turn to the next known_lighthouse_positions and threat_zones
\* only gain members, and the rotation queue only gains entries at its end:
\* the old queue is a prefix of the new one and no position is queued twice.
C14_AppendOnly ==
    [][/\ known_lighthouse_positions \subseteq known_lighthouse_positions'
       /\ threat_zones \subseteq threat_zones'
       /\ IsPrefix(lighthouse_target_queue, lighthouse_target_queue')
       /\ NoDuplicates(lighthouse_target_queue')]_vars

\* C14 witness: the queue holds the inner lighthouse (1,1) ahead of the edge
\* lighthouse (9,0): the edge lighthouse was found on a later turn and was
\* put at the end, behind what was queued already.
C14_Witness ==
    /\ Returned
    /\ Len(lighthouse_target_queue) = Len(Roster)
    /\ lighthouse_target_queue[1] = <<0, 0>>
    /\ lighthouse_target_queue[2] = <<1, 1>>
    /\ <<9, 0>> \in Range(lighthouse_target_queue)
    /\ Cardinality(known_lighthouse_positions) = Len(Roster)

----------------------------------------------------------------------------
(* SpecEmpty: new_turn_action handed a snapshot without lighthouses, from   *)
(* every cell of the board, early and late in the game, with nothing       *)
(* remembered or with the roster remembered from earlier turns             *)

\* snapshots taken in so far, the empty one included
EmptyTurns == {1, 12, 61}

EmptyEnergies == {0, 100}

\* the roster as a first turn queues it: corner, edge, the others
EmptyQueue == <<(<<0, 0>>), (<<9, 0>>), (<<1, 1>>), (<<2, 2>>)>>

\* what the opposing pair (0,0), (2,2) leaves in threat_zones
EmptyThreats == {{}, {<<1, 1>>}}

EmptyInit ==
    /\ fn_args \in {[Position |-> pos, Energy |-> energy, Lighthouses |-> <<>>] :
                      pos \in Board, energy \in EmptyEnergies}
    /\ \E n \in EmptyTurns :
          \/ TakenIn(n, fn_args.Position)
          \/ /\ n > 1
             /\ \E threats \in EmptyThreats, index \in 0 .. Len(EmptyQueue) - 1 :
                   Memory(n, fn_args.Position, Range(EmptyQueue), threats, EmptyQueue, index)
    /\ AStarIdle
    /\ PoolIdle
    /\ fn_result = None
    /\ fn_calls = 0

\* lines 417-771 for the snapshot taken in: nothing is added to the memory
EmptyCall ==
    /\ fn_calls = 0
    /\ \E o \in Decide(fn_args, lighthouse_target_queue, current_target_index,
                       pathfinding_cache, threat_zones, known_lighthouse_positions,
                       turn_history, player_num, <<lastX, lastY>>) :
          /\ fn_result' = o.action
          /\ current_target_index' = o.index
    /\ fn_calls' = 1
    /\ turn_states' = turn_states + 1
    /\ countT' = countT + 1
    /\ UNCHANGED fn_args
    /\ UNCHANGED <<player_num, lastX, lastY, turn_history,
                   known_lighthouse_positions, threat_zones, pathfinding_cache,
                   lighthouse_target_queue, turn, action, pc, initial_state>>
    /\ UNCHANGED <<astarVars, poolVars>>

EmptyNext == EmptyCall

SpecEmpty == EmptyInit /\ [][EmptyNext]_vars

\* C15: a snapshot with an empty lighthouse list is answered by a MOVE to one
\* of the 8 neighbours of the agent's cell that lie on the board.
C15_EmptyViewMoves ==
    (fn_calls = 1 /\ fn_args.Lighthouses = <<>>) =>
        /\ fn_result.Action = "MOVE"
        /\ fn_result.Destination \in Board
        /\ fn_result.Destination # fn_args.Position
        /\ Abs(fn_result.Destination[1] - fn_args.Position[1]) <= 1
        /\ Abs(fn_result.Destination[2] - fn_args.Position[2]) <= 1

\* C15 witness: the agent stands in a corner of the board, on the very cell
\* the rotation queue remembered from earlier turns points at, late in the
\* game, and a MOVE is returned.
C15_Witness ==
    /\ fn_calls = 1
    /\ fn_args.Lighthouses = <<>>
    /\ fn_args.Position = <<0, 0>>
    /\ lighthouse_target_queue # <<>>
    /\ lighthouse_target_queue[1] = fn_args.Position
    /\ turn_history > 50
    /\ fn_result.Action = "MOVE"

----------------------------------------------------------------------------
(* SpecPool: ClientServer.Turn run by the workers of the thread pool.  No  *)
(* lock is taken around new_turn_action, so the calls in flight advance    *)
(* one step at a time in any order, and "self.countT += 1" is a load of    *)
(* the field followed by a store, which another worker may come between.   *)

\* ThreadPoolExecutor(max_workers=10)
max_workers == 10

\* Turn requests received in one behaviour
MaxRequests == 2

PoolCells == {<<0, 0>>, <<7, 7>>}

PoolSnapshots ==
    {[Position |-> pos, Energy |-> 5, Lighthouses |-> lhs] :
        pos \in PoolCells,
        lhs \in {<<>>, <<[Position |-> <<9, 0>>, Owner |-> 0, Energy |-> 10,
                          HaveKey |-> FALSE, Connections |-> {}]>>}}

\* the calls that have entered new_turn_action and not left it
Inside == {i \in DOMAIN inflight :
              inflight[i].pc \in {"taken", "decided", "recorded", "loaded"}}

\* the calls a worker is busy with
Busy == {i \in DOMAIN inflight : inflight[i].pc # "done"}

\* a request is handed to a free worker (lines 879-882)
PoolAccept ==
    /\ Len(inflight) < MaxRequests
    /\ Cardinality(Busy) < max_workers
    /\ \E t \in PoolSnapshots :
          inflight' = Append(inflight, [pc |-> "accepted", turn |-> t,
                                        action |-> NoAction, seen |-> 0])
    /\ UNCHANGED <<engineVars, pathfinding_cache, astarVars, funVars>>

\* lines 410-437: the snapshot is taken into the memory
PoolTakeIn(i) ==
    /\ inflight[i].pc = "accepted"
    /\ LET t == inflight[i].turn
       IN  /\ lastX' = t.Position[1]
           /\ lastY' = t.Position[2]
           /\ turn_history' = turn_history + 1
           /\ threat_zones' = predict_enemy_movement(threat_zones, t, player_num)
           /\ known_lighthouse_positions' = KnownAfter(known_lighthouse_positions, t)
           /\ lighthouse_target_queue' \in
                  update_lighthouse_rotation_queue(lighthouse_target_queue,
                                                   known_lighthouse_positions')
    /\ inflight' = [inflight EXCEPT ![i].pc = "taken"]
    /\ UNCHANGED <<player_num, countT, turn_states, current_target_index,
                   turn, action, pc, initial_state, pathfinding_cache>>
    /\ UNCHANGED <<astarVars, funVars>>

\* lines 439-759: the action is chosen from the memory as it is now
PoolDecide(i) ==
    /\ inflight[i].pc = "taken"
    /\ \E o \in Decide(inflight[i].turn, lighthouse_target_queue, current_target_index,
                       pathfinding_cache, threat_zones, known_lighthouse_positions,
                       turn_history, player_num, <<lastX, lastY>>) :
          /\ inflight' = [inflight EXCEPT ![i].pc = "decided", ![i].action = o.action]
          /\ current_target_index' = o.index
    /\ UNCHANGED <<player_num, countT, lastX, lastY, turn_history, turn_states,
                   known_lighthouse_positions, threat_zones, lighthouse_target_queue,
                   turn, action, pc, initial_state, pathfinding_cache>>
    /\ UNCHANGED <<astarVars, funVars>>

\* self.turn_states.append(bgt)
PoolRecord(i) ==
    /\ inflight[i].pc = "decided"
    /\ turn_states' = turn_states + 1
    /\ inflight' = [inflight EXCEPT ![i].pc = "recorded"]
    /\ UNCHANGED <<player_num, countT, lastX, lastY, turn_history,
                   known_lighthouse_positions, threat_zones, lighthouse_target_queue,
                   current_target_index, turn, action, pc, initial_state,
                   pathfinding_cache>>
    /\ UNCHANGED <<astarVars, funVars>>

\* self.countT += 1, first half: the field is loaded
PoolLoad(i) ==
    /\ inflight[i].pc = "recorded"
    /\ inflight' = [inflight EXCEPT ![i].pc = "loaded", ![i].seen = countT]
    /\ UNCHANGED <<engineVars, pathfinding_cache, astarVars, funVars>>

\* self.countT += 1, second half: the sum is stored; return action
PoolStore(i) ==
    /\ inflight[i].pc = "loaded"
    /\ countT' = inflight[i].seen + 1
    /\ inflight' = [inflight EXCEPT ![i].pc = "done"]
    /\ UNCHANGED <<player_num, lastX, lastY, turn_history, turn_states,
                   known_lighthouse_positions, threat_zones, lighthouse_target_queue,
                   current_target_index, turn, action, pc, initial_state,
                   pathfinding_cache>>
    /\ UNCHANGED <<astarVars, funVars>>

PoolNext ==
    \/ PoolAccept
    \/ \E i \in DOMAIN inflight : PoolTakeIn(i)
    \/ \E i \in DOMAIN inflight : PoolDecide(i)
    \/ \E i \in DOMAIN inflight : PoolRecord(i)
    \/ \E i \in DOMAIN inflight : PoolLoad(i)
    \/ \E i \in DOMAIN inflight : PoolStore(i)

SpecPool == Init /\ [][PoolNext]_vars

\* C16: no two Turn calls are inside new_turn_action at the same time, and
\* once the N calls received have returned, countT is 1 + N and turn_states
\* and turn_history hold N entries each.
C16_TurnsSerialized ==
    /\ Cardinality(Inside) <= 1
    /\ (inflight # <<>> /\ Busy = {}) =>
           /\ countT = 1 + Len(inflight)
           /\ turn_states = Len(inflight)
           /\ turn_history = Len(inflight)

\* the count alone: every call returned, an increment of countT lost
C16_LostUpdate ==
    /\ inflight # <<>>
    /\ Busy = {}
    /\ countT < 1 + Len(inflight)

----------------------------------------------------------------------------
(* SpecGame: the game as the server drives it, the roster first            *)

\* the request of InitialState: the lighthouses of the map
InitialRoster == [Lighthouses |-> Roster]

\* ClientServer.InitialState (lines 872-877), delivered once, before the
\* first Turn: the request is stored and nothing else is written
InitialState ==
    /\ pc = "idle"
    /\ initial_state = None
    /\ turn_history = 0
    /\ initial_state' = InitialRoster
    /\ UNCHANGED <<player_num, countT, lastX, lastY, turn_history, turn_states,
                   known_lighthouse_positions, threat_zones, pathfinding_cache,
                   lighthouse_target_queue, current_target_index, turn, action, pc>>
    /\ UNCHANGED <<astarVars, funVars, poolVars>>

GameNext == InitialState \/ NewTurn \/ Reply

SpecGame == Init /\ [][GameNext]_vars

\* the roster has been delivered and no Turn has been processed yet
RosterDelivered == initial_state # None /\ turn_history = 0

\* C17: between the delivery of the roster and the first Turn, every
\* lighthouse of the roster is in known_lighthouse_positions.
C17_RosterKnown ==
    RosterDelivered =>
        \A i \in DOMAIN initial_state.Lighthouses :
            initial_state.Lighthouses[i] \in known_lighthouse_positions

----------------------------------------------------------------------------
(* SpecWild: new_turn_action handed snapshots with values a game does not  *)
(* produce: cells off the board, energies below zero                       *)

WildCells == {<<-1, 0>>, <<-2, -2>>, <<15, 14>>, <<16, 16>>, <<3, 3>>}

WildEnergies == {-5, 5, 50}

\* no lighthouse; one under the agent with a negative energy; one on the
\* board; one off the board
WildViews(pos) ==
    {<<>>} \cup
    {<<[Position |-> at, Owner |-> 0, Energy |-> energy,
        HaveKey |-> FALSE, Connections |-> {}]>> :
        <<at, energy>> \in {<<pos, -10>>, <<(<<5, 3>>), 10>>, <<(<<20, 3>>), 10>>}}

WildSnapshots ==
    {[Position |-> pos, Energy |-> energy, Lighthouses |-> lhs] :
        <<pos, lhs>> \in {<<c, v>> : <<c, v>> \in
                            UNION {{c} \X WildViews(c) : c \in WildCells}},
        energy \in WildEnergies}

WildTurn ==
    /\ pc = "idle"
    /\ turn_history < MaxTurns
    /\ \E t \in WildSnapshots : Turn(t)

WildNext == WildTurn \/ Reply

SpecWild == Init /\ [][WildNext]_vars

\* C18: whatever the snapshot holds, the action returned has its Destination
\* on the board, and an ATTACK has a non-negative Energy.
C18_WildInputTamed ==
    Returned =>
        /\ action.Action \in ActionKinds
        /\ OnBoard(action.Destination)
        /\ action.Action = "ATTACK" => action.Energy >= 0

----------------------------------------------------------------------------
(* SpecRand: the engine of src/randbot.py.  Its BotGame keeps player_num,  *)
(* initial_state, turn_states and countT only.                             *)

\* randbot.py lines 38-49.  "[cx, cy] not in lighthouses[dest].Connections"
\* compares a list with Position messages, which are never equal to it, so
\* the test lets every dest through.
randbot_possible_connections(t, me) ==
    SelectSeq(DictKeys(t.Lighthouses), LAMBDA dest :
        /\ dest # t.Position
        /\ DictGet(t.Lighthouses, dest).HaveKey
        /\ DictGet(t.Lighthouses, dest).Owner = me)

\* randbot.py lines 81-91: "turn.Position + random.choice(moves)"
randbot_random_moves(t) ==
    {MakeAction("MOVE", Step(t.Position, d), 0) : d \in Range(Steps)}

\* randbot.py lines 27-96: the actions new_turn_action can return.  Each
\* "random.randrange(100) < 60" may come out either way.
randbot_new_turn_action(t, me) ==
    LET pos == t.Position
        owned_here == /\ pos \in Range(DictKeys(t.Lighthouses))
                      /\ DictGet(t.Lighthouses, pos).Owner = me
        connects == {MakeAction("CONNECT", dest, 0) :
                        dest \in Range(randbot_possible_connections(t, me))}
        attacks == {MakeAction("ATTACK", pos, energy) : energy \in 0 .. t.Energy}
    IN  IF owned_here
        THEN connects \cup attacks \cup randbot_random_moves(t)
        ELSE randbot_random_moves(t)

RandEnergies == {0, 3}

\* nothing in view; the agent on a lighthouse of its own, alone or with a
\* second one whose key it holds
RandViews(pos, me) ==
    LET own(at) == [Position |-> at, Owner |-> me, Energy |-> 10,
                    HaveKey |-> TRUE, Connections |-> {}]
        far == IF pos = <<7, 7>> THEN <<0, 0>> ELSE <<7, 7>>
    IN  {<<>>, <<own(pos)>>, <<own(pos), own(far)>>}

\* randbot.py lines 27-96 and ClientServer.Turn
RandTurn ==
    /\ pc = "idle"
    /\ turn_states < MaxTurns
    /\ \E pos \in Board, energy \in RandEnergies :
         \E lhs \in RandViews(pos, player_num) :
           LET t == [Position |-> pos, Energy |-> energy, Lighthouses |-> lhs]
           IN  /\ turn' = t
               /\ action' \in randbot_new_turn_action(t, player_num)
    /\ turn_states' = turn_states + 1
    /\ countT' = countT + 1
    /\ pc' = "returned"
    /\ UNCHANGED <<player_num, lastX, lastY, turn_history, known_lighthouse_positions,
                   threat_zones, pathfinding_cache, lighthouse_target_queue,
                   current_target_index, initial_state>>
    /\ UNCHANGED <<astarVars, funVars, poolVars>>

RandNext == RandTurn \/ Reply

SpecRand == Init /\ [][RandNext]_vars

\* C19: randbot.py answers a snapshot taken on the board with a MOVE whose
\* Destination is on the board.
C19_RandMoveOnBoard ==
    (Returned /\ OnBoard(turn.Position) /\ action.Action = "MOVE") =>
        OnBoard(action.Destination)

----------------------------------------------------------------------------
(* SpecChase: the engine in a closed loop with the game.  Every MOVE is    *)
(* applied to the agent's cell, the lighthouses stay neutral, and the      *)
(* agent never has the energy to attack, so the engine only steers along   *)
(* its rotation queue.  The server keeps sending turns (weak fairness).    *)

\* current_turn is only compared with constants up to 60 (line 155) and
\* countT is only printed: from HistoryCap on, the counters are kept there
HistoryCap == 61

\* two neutral lighthouses on one row, away from corners and edges
ChaseRoster == <<(<<3, 7>>), (<<11, 7>>)>>

ChaseStarts == {<<7, 7>>, <<0, 7>>, <<5, 5>>}

ChaseEnergy == 5

ChaseView ==
    [i \in DOMAIN ChaseRoster |->
        [Position |-> ChaseRoster[i], Owner |-> 0, Energy |-> 10,
         HaveKey |-> FALSE, Connections |-> {}]]

\* the cell of the agent once the last action has been applied
AppliedPosition ==
    IF action.Action = "MOVE" THEN action.Destination ELSE turn.Position

\* the game applies the last action and sends the next snapshot
ChaseSend ==
    /\ pc # "received"
    /\ \E pos \in (IF pc = "idle" THEN ChaseStarts ELSE {AppliedPosition}) :
          turn' = [Position |-> pos, Energy |-> ChaseEnergy, Lighthouses |-> ChaseView]
    /\ action' = NoAction
    /\ pc' = "received"
    /\ UNCHANGED <<player_num, countT, lastX, lastY, turn_history, turn_states,
                   known_lighthouse_positions, threat_zones, pathfinding_cache,
                   lighthouse_target_queue, current_target_index, initial_state>>
    /\ UNCHANGED <<astarVars, funVars, poolVars>>

\* ClientServer.Turn on the snapshot received
ChaseAnswer ==
    /\ pc = "received"
    /\ lastX' = turn.Position[1]
    /\ lastY' = turn.Position[2]
    /\ turn_history' = Min(turn_history + 1, HistoryCap)
    /\ threat_zones' = predict_enemy_movement(threat_zones, turn, player_num)
    /\ known_lighthouse_positions' = KnownAfter(known_lighthouse_positions, turn)
    /\ lighthouse_target_queue' \in
           update_lighthouse_rotation_queue(lighthouse_target_queue,
                                            known_lighthouse_positions')
    /\ \E o \in Decide(turn, lighthouse_target_queue', current_target_index,
                       pathfinding_cache, threat_zones', known_lighthouse_positions',
                       turn_history', player_num, <<lastX', lastY'>>) :
          /\ action' = o.action
          /\ current_target_index' = o.index
    /\ turn_states' = Min(turn_states + 1, HistoryCap)
    /\ countT' = Min(countT + 1, HistoryCap + 1)
    /\ pc' = "returned"
    /\ UNCHANGED <<player_num, pathfinding_cache, initial_state, turn>>
    /\ UNCHANGED <<astarVars, funVars, poolVars>>

ChaseNext == ChaseSend \/ ChaseAnswer

\* a ChaseSend step and a ChaseAnswer step, as they show on pc: every step
\* of ChaseNext is one or the other, and new_turn_action returns an action
\* for every snapshot, so each is enabled exactly when its pc is reached
Sent == pc # "received" /\ pc' = "received"

Answered == pc = "received" /\ pc' = "returned"

\* the game keeps sending snapshots and the bot keeps answering them
SpecChase == Init /\ [][ChaseNext]_vars /\ WF_pc(Sent) /\ WF_pc(Answered)

\* the snapshot just answered was taken on the cell l
AgentOn(l) == pc = "returned" /\ turn.Position = l

\* no lighthouse of the snapshot just answered is urgent enough to override
\* the rotation target
NoUrgentOverride ==
    Returned =>
        /\ action.Action = "MOVE"
        /\ \A i \in DOMAIN turn.Lighthouses :
              turn.Lighthouses[i].Owner = 0 /\ ~IsCorner(turn.Lighthouses[i].Position)
        /\ optimize_energy_allocation(turn, 1, turn_history, threat_zones, player_num) < 1

\* C20: with every MOVE applied, ownership fixed and no urgent override,
\* the agent eventually stands on each lighthouse of the rotation queue.
C20_StandsOnEveryTarget ==
    \A l \in Range(ChaseRoster) : <>AgentOn(l)

----------------------------------------------------------------------------
(* SpecThreat: predict_enemy_movement on its own, on snapshots of three    *)
(* lighthouses in every order and with every owner                         *)

\* cells on a row, on a diagonal and askew; (9,0) is more than 6 from (0,0)
ThreatCells == {<<0, 0>>, <<2, 2>>, <<3, 1>>, <<6, 0>>, <<9, 0>>}

\* nobody, the agent, an opponent, and an opponent in a game of five
ThreatOwners == {0, 1, 2, 5}

ThreatViews ==
    {[i \in 1 .. 3 |-> [Position |-> at[i], Owner |-> owner[i], Energy |-> 10,
                        HaveKey |-> FALSE, Connections |-> {}]] :
        at \in {q \in [1 .. 3 -> ThreatCells] : q[1] # q[2] /\ q[1] # q[3] /\ q[2] # q[3]},
        owner \in [1 .. 3 -> ThreatOwners]}

ThreatInit ==
    /\ fn_args \in {[Position |-> <<7, 7>>, Energy |-> 5, Lighthouses |-> lhs] :
                      lhs \in ThreatViews}
    /\ \E threats \in {{}, {<<1, 1>>}} :
          Memory(1, fn_args.Position, {}, threats, <<>>, 0)
    /\ AStarIdle
    /\ PoolIdle
    /\ fn_result = None
    /\ fn_calls = 0

\* self.predict_enemy_movement(turn); fn_result is what the call added
ThreatCall ==
    /\ fn_calls = 0
    /\ threat_zones' = predict_enemy_movement(threat_zones, fn_args, player_num)
    /\ fn_result' = threat_zones' \ threat_zones
    /\ fn_calls' = 1
    /\ UNCHANGED fn_args
    /\ UNCHANGED <<player_num, countT, lastX, lastY, turn_history, turn_states,
                   known_lighthouse_positions, pathfinding_cache,
                   lighthouse_target_queue, current_target_index, turn, action, pc,
                   initial_state>>
    /\ UNCHANGED <<astarVars, poolVars>>

ThreatNext == ThreatCall

SpecThreat == ThreatInit /\ [][ThreatNext]_vars

\* the interior interpolation cells of the pair (p1, p2)
Interior(p1, p2) ==
    LET d == Chebyshev(p1, p2)
    IN  {<<p1[1] + ((p2[1] - p1[1]) * step) \div d,
           p1[2] + ((p2[2] - p1[2]) * step) \div d>> : step \in 1 .. d - 1}

\* the pairs of lighthouses of one opposing player, at most 6 apart, in the
\* order of the snapshot
OpposingPairs(lhs, me) ==
    {ij \in (DOMAIN lhs) \X (DOMAIN lhs) :
        /\ ij[1] < ij[2]
        /\ lhs[ij[1]].Owner = lhs[ij[2]].Owner
        /\ lhs[ij[1]].Owner \notin {0, me}
        /\ Chebyshev(lhs[ij[1]].Position, lhs[ij[2]].Position) \in 1 .. 6}

\* C22: after predict_enemy_movement, threat_zones holds the interior cells
\* of every pair of lighthouses of one opposing player at most 6 apart, and
\* every cell added is such a cell, on the board and on neither endpoint.
C22_ThreatsBetweenPairs ==
    fn_calls = 1 =>
        LET lhs == fn_args.Lighthouses
        IN  /\ \A ij \in OpposingPairs(lhs, player_num) :
                  Interior(lhs[ij[1]].Position, lhs[ij[2]].Position) \subseteq threat_zones
            /\ \A c \in fn_result :
                  /\ OnBoard(c)
                  /\ \E ij \in OpposingPairs(lhs, player_num) :
                        /\ c \in Interior(lhs[ij[1]].Position, lhs[ij[2]].Position)
                        /\ c # lhs[ij[1]].Position
                        /\ c # lhs[ij[2]].Position

----------------------------------------------------------------------------
(* SpecAttack: new_turn_action for an agent standing on a lighthouse, in   *)
(* every phase of the game, with every owner of the lighthouse and with    *)
(* energies on both sides of the reserves                                  *)

\* turns played before the one in hand
AttackTurns == {0, 19, 49}

AttackHere == <<7, 7>>

AttackEnergies == {0, 5, 11, 21, 25, 40, 100}

LighthouseEnergies == {0, 4, 10, 20, 60}

\* the lighthouses seen on earlier turns, as they were queued: a square of
\* side 6 with AttackHere as one corner, and one more two cells from it
AttackQueue == <<(<<1, 1>>), (<<7, 1>>), (<<1, 7>>), (<<7, 7>>), (<<7, 9>>)>>

\* the cells an opponent holding the square has left in threat_zones: its
\* four sides and two diagonals, 29 cells
AttackThreats ==
    UNION {PairThreats([Position |-> AttackQueue[i]], [Position |-> AttackQueue[j]]) :
             <<i, j>> \in {ij \in (1 .. 4) \X (1 .. 4) : ij[1] < ij[2]}}

\* besides the lighthouse under the agent: nothing, an opposing lighthouse
\* two cells away, or three lighthouses of the agent
AttackViews ==
    {<<>>,
     <<[Position |-> <<7, 9>>, Owner |-> 2, Energy |-> 10, HaveKey |-> FALSE,
        Connections |-> {}]>>,
     [i \in 1 .. 3 |-> [Position |-> AttackQueue[i], Owner |-> 1, Energy |-> 10,
                        HaveKey |-> FALSE, Connections |-> {}]]}

AttackSnapshots ==
    {[Position    |-> AttackHere,
      Energy      |-> energy,
      Lighthouses |-> <<[Position |-> AttackHere, Owner |-> owner, Energy |-> lighthouse_energy,
                         HaveKey |-> FALSE, Connections |-> {}]>> \o view] :
        energy \in AttackEnergies, lighthouse_energy \in LighthouseEnergies,
        owner \in Owners, view \in AttackViews}

\* a BotGame between two turns, n turns played
AttackInit ==
    /\ \E n \in AttackTurns :
          /\ countT = n + 1
          /\ turn_history = n
          /\ turn_states = n
          /\ \/ /\ known_lighthouse_positions = {}
                /\ threat_zones = {}
                /\ lighthouse_target_queue = <<>>
             \/ /\ n > 0
                /\ known_lighthouse_positions = Range(AttackQueue)
                /\ threat_zones = AttackThreats
                /\ lighthouse_target_queue = AttackQueue
    /\ player_num = 1
    /\ lastX = AttackHere[1]
    /\ lastY = AttackHere[2]
    /\ pathfinding_cache = <<>>
    /\ current_target_index = 0
    /\ turn = NoTurn
    /\ action = NoAction
    /\ pc = "idle"
    /\ initial_state = None
    /\ AStarIdle
    /\ FunIdle
    /\ PoolIdle

AttackTurn ==
    /\ pc = "idle"
    /\ \E t \in AttackSnapshots : Turn(t)

AttackNext == AttackTurn

SpecAttack == AttackInit /\ [][AttackNext]_vars

\* C24: the Energy of an ATTACK does not exceed the agent's energy.
C24_AttackWithinEnergy ==
    (Returned /\ action.Action = "ATTACK") => action.Energy <= turn.Energy

\* C24 witness: late in the game the agent recharges its own lighthouse with
\* the fallback amount, which is all the energy it has.
C24_Witness ==
    /\ Returned
    /\ action.Action = "ATTACK"
    /\ \E lh \in StandsOn(turn) : lh.Owner = player_num /\ action.Energy = lh.Energy + 1
    /\ action.Energy = turn.Energy
    /\ turn_history >= 50

\* C24, the other cases: a foreign lighthouse attacked with the allocated
\* amount, which reaches its energy + 1
AllocatedAttack ==
    /\ Returned
    /\ action.Action = "ATTACK"
    /\ \E lh \in StandsOn(turn) : lh.Owner # player_num /\ action.Energy > lh.Energy + 1

----------------------------------------------------------------------------
(* SpecLedger: turns processed one after another, with the entry appended  *)
(* to turn_states kept in fn_result.  The snapshots lead to each of the    *)
(* six return statements of new_turn_action.                               *)

\* variant: the entry does not hold the action
BotGameTurn_Blank(t, a) == [turn |-> t, action |-> NoAction]

\* class BotGameTurn
BotGameTurn(t, a) == [turn |-> t, action |-> a]

LedgerSnapshots ==
    {\* CONNECT: on an own lighthouse, the others owned too
     Snapshot(<<9, 0>>, 50, 4, [i \in 1 .. 4 |-> 1]),
     \* ATTACK, own lighthouse
     Snapshot(<<0, 0>>, 5, 2, [i \in 1 .. 2 |-> IF i = 1 THEN 1 ELSE 0]),
     \* PASS, own lighthouse with more energy than the agent
     Snapshot(<<9, 0>>, 5, 4, [i \in 1 .. 4 |-> IF i = 4 THEN 1 ELSE 0]),
     \* ATTACK, opposing lighthouse
     Snapshot(<<0, 0>>, 5, 2, [i \in 1 .. 2 |-> 2]),
     \* MOVE
     Snapshot(<<1, 0>>, 5, 0, <<>>),
     Snapshot(<<1, 0>>, 15, 4, [i \in 1 .. 4 |-> 0]),
     Snapshot(<<8, 1>>, 25, 4, [i \in 1 .. 4 |-> 2]),
     Snapshot(<<5, 5>>, 0, 2, [i \in 1 .. 2 |-> 1]),
     \* PASS, no neighbour on the board
     Snapshot(<<16, 16>>, 5, 0, <<>>)}

\* ClientServer.Turn: new_turn_action(t) from its first line to its return
LedgerTurn ==
    /\ pc = "idle"
    /\ turn_history < MaxTurns
    /\ \E t \in LedgerSnapshots :
          /\ lastX' = t.Position[1]
          /\ lastY' = t.Position[2]
          /\ turn_history' = turn_history + 1
          /\ turn' = t
          /\ threat_zones' = predict_enemy_movement(threat_zones, t, player_num)
          /\ known_lighthouse_positions' = KnownAfter(known_lighthouse_positions, t)
          /\ lighthouse_target_queue' \in
                 update_lighthouse_rotation_queue(lighthouse_target_queue,
                                                  known_lighthouse_positions')
          /\ \E o \in Decide(t, lighthouse_target_queue', current_target_index,
                             pathfinding_cache, threat_zones', known_lighthouse_positions',
                             turn_history', player_num, <<lastX', lastY'>>) :
                /\ action' = o.action
                /\ current_target_index' = o.index
                /\ fn_result' = BotGameTurn(t, o.action)
          /\ turn_states' = turn_states + 1
          /\ countT' = countT + 1
          /\ pc' = "returned"
    /\ UNCHANGED <<player_num, pathfinding_cache, initial_state, fn_args, fn_calls>>
    /\ UNCHANGED <<astarVars, poolVars>>

LedgerNext == LedgerTurn \/ Reply

SpecLedger == Init /\ [][LedgerNext]_vars

\* C25: a call of new_turn_action adds 1 to countT, one entry to
\* turn_history and one to turn_states, holding the snapshot and the action
\* returned, so that countT = 1 + len(turn_states) = 1 + len(turn_history)
\* after it; between calls the three do not change.
C25_OneEntryPerTurn ==
    [][/\ pc' = "returned" =>
            /\ countT' = countT + 1
            /\ turn_history' = turn_history + 1
            /\ turn_states' = turn_states + 1
            /\ fn_result' = [turn |-> turn', action |-> action']
            /\ action'.Action \in ActionKinds
            /\ countT' = 1 + turn_states'
            /\ countT' = 1 + turn_history'
       /\ pc' # "returned" => UNCHANGED <<countT, turn_history, turn_states>>]_vars

\* C25 witness: the second turn ends in the PASS of a defended lighthouse
\* after a first turn that ended otherwise, and the counters stand at 3, 2, 2.
C25_Witness ==
    /\ Returned
    /\ action.Action = "PASS"
    /\ StandsOn(turn) # {}
    /\ fn_result.action = action
    /\ countT = 3
    /\ turn_states = 2
    /\ turn_history = 2
    /\ current_target_index > 0

====
